---- MODULE Spec2Model ----
(***************************************************************************)
(* Model of the live execution engine of test_maker                        *)
(* (src/components/BrowserTestRunner.tsx): the React component state, the  *)
(* asynchronous runTest invocations with the values their closures         *)
(* captured, the browser windows they drive and the calls they make to     *)
(* POST /api/test-executions.                                              *)
(*                                                                         *)
(* One action is one synchronous stretch of JavaScript: a click handler,   *)
(* or the code that runs between two awaited timers / fetches.             *)
(* Positions are 1-based here: position p is index p-1 of the source.      *)
(***************************************************************************)
EXTENDS Integers, Sequences, FiniteSets, TLC

VARIABLES steps, isRunning, results, currentStep, testWindow, error,
          windows, runs, posts, nruns, call, users, test_cases, requests

\* the component, its runs and the browser
live == <<steps, isRunning, results, currentStep, testWindow, error,
          windows, runs, posts, nruns>>

\* call is one call of a function of the code emitter or of a loader: its
\* name, its arguments and, once it has returned, its result
\* the tables users and test_cases of the database, and the requests the
\* API routes have received, each with the response it got
store == <<users, test_cases, requests>>

vars == <<live, call, store>>

\* ---------------------------------------------------------------- bounds
MaxSteps == 2       \* longest step sequence of the test case
MaxRuns == 2        \* number of Run Test clicks considered

\* ------------------------------------------------------------ step model
NoWindow == 0       \* the null window handle

SameUrl == "/app"                       \* resolves inside the runner's origin
CrossUrl == "https://ext.example/"      \* another origin
BadUrl == "http://"                     \* not a parsable URL

mkStep(t, u, s, v) == [type |-> t, url |-> u, selector |-> s, value |-> v]

StepKinds ==
    { mkStep("navigate", u, "", "") : u \in {"", SameUrl, CrossUrl, BadUrl} }
    \cup { mkStep(t, "", s, "") : t \in {"click", "wait", "verifyElement"},
                                  s \in {"", "#a"} }
    \cup { mkStep("fill", "", "#a", v) : v \in {"", "x"} }
    \cup { mkStep(t, "", "", "") :
             t \in {"waitForPageLoad", "assert", "custom", "api_call"} }

StepSeqs == UNION { [1..n -> StepKinds] : n \in 1..MaxSteps }

\* JavaScript truthiness of an optional string field
Truthy(s) == s # ""

UrlParses(u) == u # BadUrl
UrlOrigin(u) == IF u = CrossUrl THEN "cross" ELSE "same"

\* -------------------------------------------------------------- messages
Msg(t, a) == [t |-> t, a |-> a]
NoMsg == Msg("", "")

\* the message templates of executeStep that contain each marker text
TemplatesWithCrossOrigin ==
    { "Navigated to {} (cross-origin - watch the test window)",
      "Navigation attempted to {} (cross-origin - watch the test window to verify)",
      "Waiting for page load (cross-origin - watch the test window)",
      "Waited for {} (cross-origin - watch the test window)",
      "Cannot access window (cross-origin). Please verify manually in the test window.",
      "Cannot access window (cross-origin). Please fill manually in the test window.",
      "Cannot verify element (cross-origin). Please verify manually in the test window." }

TemplatesWithWatch ==
    { "Navigated to {} (cross-origin - watch the test window)",
      "Navigation attempted to {} (cross-origin - watch the test window to verify)",
      "Waiting for page load (cross-origin - watch the test window)",
      "Waited for {} (cross-origin - watch the test window)" }

TemplatesWithManualVerification == {}

Includes(m, templates) == m.t \in templates

\* a check that takes every message for a failure of its own
isCrossOriginWarning_Never(m) == FALSE

isCrossOriginWarning(m) ==
    \/ Includes(m, TemplatesWithCrossOrigin)
    \/ Includes(m, TemplatesWithWatch)
    \/ Includes(m, TemplatesWithManualVerification)

\* ------------------------------------------------------------- windows
\* windows is the list of browsing contexts window.open has created; a
\* handle is an index into it. A window is open or closed, and its document
\* is same-origin or cross-origin to the runner.
FreshWindow == [closed |-> FALSE, origin |-> "same"]

\* testWindow.closed: readable across origins
IsClosed(ws, h) == ws[h].closed

\* testWindow.location.href can be read (does not throw): a same-origin
\* document, or a closed window (whose location reads about:blank)
CanRead(ws, h) == ws[h].closed \/ ws[h].origin = "same"

\* testWindow.location.href = fullUrl for a URL that parses: an open window
\* loads the URL, a closed one ignores the assignment
Navigate(ws, h, u) ==
    IF ws[h].closed THEN ws ELSE [ws EXCEPT ![h].origin = UrlOrigin(u)]

\* window.open('', 'testWindow', ...): the open window of that name if there
\* is one, else a new window; 0 stands for a new window in the result
NamedWindow(ws) ==
    IF \E h \in 1..Len(ws) : ~ws[h].closed
    THEN CHOOSE h \in 1..Len(ws) : ~ws[h].closed
    ELSE NoWindow

\* ------------------------------------------------------------ executeStep
Result(ok, t, a) == [success |-> ok, message |-> Msg(t, a)]

DomOutcomes == {"found", "missing", "throws"}

\* the checks without the one for a closed window
WindowCheck_NoClosedCheck(step, tw, ws) ==
    IF step.type \in {"wait", "waitForPageLoad"} THEN "go"
    ELSE IF tw = NoWindow THEN "unavailable"
    ELSE "go"

\* lines 105-136: the checks on the handle before the switch; "go" when the
\* switch is reached
WindowCheck(step, tw, ws) ==
    IF step.type \in {"wait", "waitForPageLoad"} THEN "go"
    ELSE IF tw = NoWindow THEN "unavailable"
    ELSE IF step.type = "navigate" THEN "go"
    ELSE IF IsClosed(ws, tw) THEN "closed"
    ELSE "go"

\* lines 138-149
canAccessWindow(tw, ws) == tw # NoWindow /\ CanRead(ws, tw)

\* The part of executeStep that runs before its first awaited timer (lines
\* 105-282). wait = TRUE: the step is suspended on its timer and its result
\* is ExecuteStepResume's; wait = FALSE: the result is final. nav = TRUE: the
\* location of tw was assigned (the assignment of a URL that does not parse
\* throws, and the step returns at once). Steps carry no description here,
\* so an assert step's message is the default one.
ExecuteStepSync(step, tw, ws, dom) ==
    LET ret(ok, t, a) == [wait |-> FALSE, nav |-> FALSE, result |-> Result(ok, t, a)]
        sus(nav) == [wait |-> TRUE, nav |-> nav, result |-> Result(FALSE, "", "")]
        chk == WindowCheck(step, tw, ws)
        acc == canAccessWindow(tw, ws)
    IN  IF chk = "unavailable" THEN ret(FALSE, "Test window is not available", "")
        ELSE IF chk = "closed" THEN ret(FALSE, "Test window was closed", "")
        ELSE CASE step.type = "navigate" ->
                    IF Truthy(step.url)
                    THEN IF UrlParses(step.url)
                         THEN sus(TRUE)
                         ELSE [wait |-> FALSE, nav |-> TRUE, result |->
                                 Result(TRUE, "Navigation attempted to {} (cross-origin - watch the test window to verify)", step.url)]
                    ELSE ret(FALSE, "No URL provided", "")
               [] step.type = "waitForPageLoad" -> sus(FALSE)
               [] step.type = "wait" ->
                    IF Truthy(step.selector) THEN sus(FALSE)
                    ELSE ret(FALSE, "No selector provided", "")
               [] step.type = "click" ->
                    IF Truthy(step.selector)
                    THEN IF ~acc
                         THEN ret(FALSE, "Cannot access window (cross-origin). Please verify manually in the test window.", "")
                         ELSE CASE dom = "found" -> sus(FALSE)
                                [] dom = "missing" -> ret(FALSE, "Element not found: {}", step.selector)
                                [] OTHER -> ret(FALSE, "Error clicking: {}", "")
                    ELSE ret(FALSE, "No selector provided", "")
               [] step.type = "fill" ->
                    IF Truthy(step.selector) /\ Truthy(step.value)
                    THEN IF ~acc
                         THEN ret(FALSE, "Cannot access window (cross-origin). Please fill manually in the test window.", "")
                         ELSE CASE dom = "found" -> sus(FALSE)
                                [] dom = "missing" -> ret(FALSE, "Element not found: {}", step.selector)
                                [] OTHER -> ret(FALSE, "Error filling: {}", "")
                    ELSE ret(FALSE, "No selector or value provided", "")
               [] step.type = "verifyElement" ->
                    IF Truthy(step.selector)
                    THEN IF ~acc
                         THEN ret(FALSE, "Cannot verify element (cross-origin). Please verify manually in the test window.", "")
                         ELSE CASE dom = "found" -> ret(TRUE, "Element found and visible: {}", step.selector)
                                [] dom = "missing" -> ret(FALSE, "Element not found or not visible: {}", step.selector)
                                [] OTHER -> ret(FALSE, "Error verifying: {}", "")
                    ELSE ret(FALSE, "No selector provided", "")
               [] step.type = "assert" -> ret(TRUE, "Assertion passed", "")
               [] OTHER -> ret(FALSE, "Unknown step type: {}", step.type)

\* The part of executeStep after its timer: the result of a suspended step.
\* acc is canAccessWindow as computed before the timer; a navigate step reads
\* the location again now (lines 167-174).
ExecuteStepResume(step, tw, ws, acc) ==
    CASE step.type = "navigate" ->
            IF CanRead(ws, tw)
            THEN Result(TRUE, "Navigated to {}", step.url)
            ELSE Result(TRUE, "Navigated to {} (cross-origin - watch the test window)", step.url)
      [] step.type = "waitForPageLoad" ->
            IF ~acc
            THEN Result(TRUE, "Waiting for page load (cross-origin - watch the test window)", "")
            ELSE Result(TRUE, "Page loaded", "")
      [] step.type = "wait" ->
            IF ~acc
            THEN Result(TRUE, "Waited for {} (cross-origin - watch the test window)", step.selector)
            ELSE Result(TRUE, "Waited for {}", step.selector)
      [] step.type = "click" -> Result(TRUE, "Clicked {}", step.selector)
      [] OTHER -> Result(TRUE, "Filled {} with {}", step.selector)

\* ------------------------------------------------------- component state
\* TestResult: status and message of one step (line 12-17)
TestResult(status, message) == [status |-> status, message |-> message]

Count(res, status) == Cardinality({p \in 1..Len(res) : res[p].status = status})

\* prev.map((r, idx) => idx === i ? { ...r, status, message } : r)
MapAt(res, p, status, message) ==
    [q \in 1..Len(res) |->
        IF q = p THEN TestResult(status, message) ELSE res[q]]

\* prev.map((r, idx) => idx === i ? { ...r, status: 'running' } : r)
MapRunning(res, p) ==
    [q \in 1..Len(res) |->
        IF q = p THEN TestResult("running", res[q].message) ELSE res[q]]

\* One invocation of runTest. pc is where it is suspended; clResults and
\* clWindow are the values of the state variables results and testWindow in
\* the render whose runTest was clicked: runTest and the executeStep it calls
\* read those, not the current state. own and navs record what this
\* invocation did: the result it gave each step, and the location
\* assignments it made (phase, position of the step, window, whether the
\* assignment threw). saveError: the rejection of its POST was written to the
\* console.
Nav(phase, pos, window, threw) ==
    [phase |-> phase, pos |-> pos, window |-> window, threw |-> threw]

IdleRun ==
    [pc |-> "idle", i |-> 0, skipFirstNavigate |-> FALSE,
     clResults |-> <<>>, clWindow |-> NoWindow, newWindow |-> NoWindow,
     canAccess |-> FALSE, saveError |-> FALSE, own |-> <<>>, navs |-> <<>>]

RunIds == 1..MaxRuns

\* the global state as one record, for the operators below
Pack ==
    [isRunning |-> isRunning, results |-> results, currentStep |-> currentStep,
     testWindow |-> testWindow, error |-> error, windows |-> windows,
     runs |-> runs, posts |-> posts]

Commit(G) ==
    /\ isRunning' = G.isRunning
    /\ results' = G.results
    /\ currentStep' = G.currentStep
    /\ testWindow' = G.testWindow
    /\ error' = G.error
    /\ windows' = G.windows
    /\ runs' = G.runs
    /\ posts' = G.posts
    /\ UNCHANGED <<call, store>>

\* the record a fetch('/api/test-executions', POST) carries
Execution(r, status, res) ==
    [run |-> r, status |-> status,
     passedSteps |-> Count(res, "passed"), failedSteps |-> Count(res, "failed"),
     stepResults |-> [q \in 1..Len(res) |-> res[q].status]]

\* lines 440-465: the loop is over; the record is built from the results of
\* the render runTest was clicked in, and the POST is issued
Complete(G, r) ==
    LET res == G.runs[r].clResults
        finalStatus == IF Count(res, "failed") > 0 THEN "failed" ELSE "passed"
    IN  [G EXCEPT !.posts = Append(@, Execution(r, finalStatus, res)),
                  !.runs[r].pc = "saveDone"]

\* AfterStep without the abort: every failure is taken as a warning
AfterStep_NeverAborts(G, r, p, result) ==
    LET status == IF result.success THEN "passed" ELSE "failed"
    IN  [G EXCEPT !.results = MapAt(@, p, status, result.message),
                  !.runs[r].own[p] = TestResult(status, result.message),
                  !.runs[r].pc = "pace"]

\* lines 380-437: the step at position p has returned result
AfterStep(G, r, p, result) ==
    LET status == IF result.success THEN "passed" ELSE "failed"
        G1 == [G EXCEPT !.results = MapAt(@, p, status, result.message),
                        !.runs[r].own[p] = TestResult(status, result.message)]
        currentResults == MapAt(G.runs[r].clResults, p, status, result.message)
    IN  IF ~result.success /\ ~isCrossOriginWarning(result.message)
        THEN [G1 EXCEPT !.error = "Test failed at step",
                        !.posts = Append(@, Execution(r, "failed", currentResults)),
                        !.runs[r].pc = "saveAbort"]
        ELSE [G1 EXCEPT !.runs[r].pc = "pace"]

\* lines 372-377: the body of the loop for position p, up to the first
\* suspension of executeStep
Body(G, r, p, dom) ==
    LET run == G.runs[r]
        ex == ExecuteStepSync(steps[p], run.clWindow, G.windows, dom)
        ws == IF ex.nav /\ UrlParses(steps[p].url)
              THEN Navigate(G.windows, run.clWindow, steps[p].url)
              ELSE G.windows
        G1 == [G EXCEPT !.currentStep = p - 1,
                        !.results = MapRunning(@, p),
                        !.windows = ws,
                        !.runs[r].i = p,
                        !.runs[r].own[p] = TestResult("running", NoMsg),
                        !.runs[r].canAccess = canAccessWindow(run.clWindow, G.windows),
                        !.runs[r].navs =
                            IF ex.nav
                            THEN Append(@, Nav("loop", p, run.clWindow, ~UrlParses(steps[p].url)))
                            ELSE @]
    IN  IF ex.wait
        THEN [G1 EXCEPT !.runs[r].pc = "step"]
        ELSE AfterStep(G1, r, p, ex.result)

LoopAt(G, r, p, dom) ==
    IF p > Len(steps) THEN Complete(G, r) ELSE Body(G, r, p, dom)

\* a loop head that never skips the first position
LoopHead_NoSkip(G, r, p, dom) == LoopAt(G, r, p, dom)

\* lines 365-371: the head of the loop; the first position is only marked
\* when the up-front navigation was made and the step is a navigate step
LoopHead(G, r, p, dom) ==
    IF G.runs[r].skipFirstNavigate /\ p = 1 /\ steps[1].type = "navigate"
    THEN LoopAt([G EXCEPT !.currentStep = 0,
                          !.results = MapAt(@, 1, "passed", Msg("Already navigated to {}", steps[1].url)),
                          !.runs[r].i = 1,
                          !.runs[r].own[1] =
                              TestResult("passed", Msg("Already navigated to {}", steps[1].url))],
                r, 2, dom)
    ELSE LoopAt(G, r, p, dom)

\* structuredSteps.find(s => s.type === 'navigate' && s.url): its position,
\* 0 when there is none
firstNavigateStep ==
    LET hits == {p \in 1..Len(steps) : steps[p].type = "navigate" /\ Truthy(steps[p].url)}
    IN  IF hits = {} THEN 0 ELSE CHOOSE p \in hits : \A q \in hits : p <= q

\* ------------------------------------------------------------------ Init
\* no call of the emitter is modelled along with the runner
NoCall == [fn |-> "none", done |-> TRUE]

\* no request is modelled along with the runner or the emitter
NoRequests ==
    /\ users = <<>>
    /\ test_cases = {}
    /\ requests = <<>>

Init ==
    /\ call = NoCall
    /\ NoRequests
    /\ steps \in StepSeqs
    /\ isRunning = FALSE
    /\ results = <<>>
    /\ currentStep = -1
    /\ testWindow = NoWindow
    /\ error = "null"
    /\ windows = <<>>
    /\ runs = [r \in RunIds |-> IdleRun]
    /\ posts = <<>>
    /\ nruns = 0

\* --------------------------------------------------------------- actions
PopupError == "Failed to open test window. Please allow popups for this site."

Pending == [p \in 1..Len(steps) |-> TestResult("pending", NoMsg)]

\* the exit that leaves isRunning set
WindowBlocked_KeepsRunning(G, r, run) ==
    [G EXCEPT !.error = PopupError,
              !.runs[r] = [run EXCEPT !.pc = "done"]]

\* lines 306-310: window.open returned null
WindowBlocked(G, r, run) ==
    [G EXCEPT !.error = PopupError,
              !.isRunning = FALSE,
              !.runs[r] = [run EXCEPT !.pc = "done"]]

\* lines 284-335: a click on Run Test (rendered while isRunning is false),
\* up to the first awaited timer. opened = FALSE: window.open returned null.
RunTest(r, opened) ==
    /\ ~isRunning
    /\ r = nruns + 1
    /\ r \in RunIds
    /\ nruns' = r
    /\ UNCHANGED steps
    /\ LET named == NamedWindow(windows)
           ws == IF named = NoWindow THEN Append(windows, FreshWindow) ELSE windows
           newWindow == IF named = NoWindow THEN Len(ws) ELSE named
           run0 == [IdleRun EXCEPT !.clResults = results,
                                   !.clWindow = testWindow,
                                   !.own = Pending]
           G0 == [Pack EXCEPT !.isRunning = TRUE, !.error = "null", !.results = Pending]
       IN  IF ~opened
           THEN Commit(WindowBlocked(G0, r, run0))
           ELSE Commit([G0 EXCEPT
                    !.testWindow = newWindow,
                    !.windows = ws,
                    !.runs[r] = [run0 EXCEPT
                        !.newWindow = newWindow,
                        \* newWindow.document of a cross-origin window throws
                        !.pc = IF ws[newWindow].origin = "cross" THEN "threw" ELSE "prep"]])

\* lines 337-344 (and the loop when there is nothing to navigate to): the
\* 500 ms timer after the window was prepared has fired
Prepared(r, dom) ==
    /\ runs[r].pc = "prep"
    /\ UNCHANGED <<steps, nruns>>
    /\ LET f == firstNavigateStep
           w == runs[r].newWindow
       IN  IF f = 0
           THEN Commit(LoopHead(Pack, r, 1, dom))
           ELSE IF ~UrlParses(steps[f].url)
           THEN Commit([Pack EXCEPT !.error = "Failed to navigate",
                                    !.isRunning = FALSE,
                                    !.runs[r].navs = Append(@, Nav("upfront", f, w, TRUE)),
                                    !.runs[r].pc = "done"])
           ELSE Commit([Pack EXCEPT !.windows = Navigate(@, w, steps[f].url),
                                    !.runs[r].navs = Append(@, Nav("upfront", f, w, FALSE)),
                                    !.runs[r].pc = "upnav"])

\* lines 346-356 and the loop: the 3000 ms timer after the up-front
\* navigation has fired
Navigated(r, dom) ==
    /\ runs[r].pc = "upnav"
    /\ UNCHANGED <<steps, nruns>>
    /\ LET w == runs[r].newWindow
           G1 == [Pack EXCEPT
                    !.runs[r].skipFirstNavigate = TRUE,
                    !.error = IF CanRead(windows, w) THEN @
                              ELSE "Note: Test window navigated to a different origin."]
       IN  Commit(LoopHead(G1, r, 1, dom))

\* the timer inside executeStep has fired: the step returns
StepDone(r) ==
    /\ runs[r].pc = "step"
    /\ UNCHANGED <<steps, nruns>>
    /\ LET run == runs[r]
           result == ExecuteStepResume(steps[run.i], run.clWindow, windows, run.canAccess)
       IN  Commit(AfterStep(Pack, r, run.i, result))

\* line 437: the 500 ms pause between steps is over
NextStep(r, dom) ==
    /\ runs[r].pc = "pace"
    /\ UNCHANGED <<steps, nruns>>
    /\ Commit(LoopHead(Pack, r, runs[r].i + 1, dom))

\* a catch that shows the rejection to the user
SaveSettled_ShowsError(G, r, ok) ==
    IF ok THEN G
    ELSE [G EXCEPT !.runs[r].saveError = TRUE,
                   !.error = "Failed to save test execution results"]

\* lines 406-427 and 447-469: the awaited fetch has settled; a rejection is
\* caught and written to the console
SaveSettled(G, r, ok) ==
    IF ok THEN G ELSE [G EXCEPT !.runs[r].saveError = TRUE]

\* lines 425-430: the POST of an aborted run has settled (ok or rejected)
AbortSaved(r, ok) ==
    /\ runs[r].pc = "saveAbort"
    /\ UNCHANGED <<steps, nruns>>
    /\ Commit([SaveSettled(Pack, r, ok) EXCEPT !.isRunning = FALSE,
                                               !.runs[r].pc = "done"])

\* lines 466-472: the POST of a completed run has settled
CompleteSaved(r, ok) ==
    /\ runs[r].pc = "saveDone"
    /\ UNCHANGED <<steps, nruns>>
    /\ Commit([SaveSettled(Pack, r, ok) EXCEPT !.isRunning = FALSE,
                                               !.currentStep = -1,
                                               !.runs[r].pc = "done"])

\* lines 475-481: a click on Stop Test (rendered while isRunning is true)
stopTest ==
    /\ isRunning
    /\ UNCHANGED <<steps, nruns>>
    /\ Commit([Pack EXCEPT
            !.windows = IF testWindow # NoWindow /\ ~IsClosed(windows, testWindow)
                        THEN [@ EXCEPT ![testWindow].closed = TRUE] ELSE @,
            !.isRunning = FALSE,
            !.currentStep = -1])

\* the user closes the test window
CloseWindow(h) ==
    /\ ~windows[h].closed
    /\ windows' = [windows EXCEPT ![h].closed = TRUE]
    /\ UNCHANGED <<steps, isRunning, results, currentStep, testWindow, error, runs, posts, nruns, call, store>>

\* the page in the test window leaves the runner's origin (a redirect, a
\* link followed in the window)
LeaveOrigin(h) ==
    /\ ~windows[h].closed
    /\ windows[h].origin = "same"
    /\ windows' = [windows EXCEPT ![h].origin = "cross"]
    /\ UNCHANGED <<steps, isRunning, results, currentStep, testWindow, error, runs, posts, nruns, call, store>>

Next ==
    \/ \E r \in RunIds, opened \in BOOLEAN : RunTest(r, opened)
    \/ \E r \in RunIds, dom \in DomOutcomes : Prepared(r, dom)
    \/ \E r \in RunIds, dom \in DomOutcomes : Navigated(r, dom)
    \/ \E r \in RunIds : StepDone(r)
    \/ \E r \in RunIds, dom \in DomOutcomes : NextStep(r, dom)
    \/ \E r \in RunIds, ok \in BOOLEAN : AbortSaved(r, ok)
    \/ \E r \in RunIds, ok \in BOOLEAN : CompleteSaved(r, ok)
    \/ stopTest
    \/ \E h \in 1..Len(windows) : CloseWindow(h)
    \/ \E h \in 1..Len(windows) : LeaveOrigin(h)

Spec == Init /\ [][Next]_vars

\* =============================================================== claims
PostsOf(r) == {k \in 1..Len(posts) : posts[k].run = r}

Positions == 1..Len(steps)

\* run r has given the step at position p a result
Left(r, p) == p \in DOMAIN runs[r].own /\ runs[r].own[p].status \in {"passed", "failed"}

\* the message texts of executeStep that say the failure is due to the
\* cross-origin restriction
CrossOriginQualified(m) ==
    m.t \in { "Cannot access window (cross-origin). Please verify manually in the test window.",
              "Cannot access window (cross-origin). Please fill manually in the test window.",
              "Cannot verify element (cross-origin). Please verify manually in the test window." }

FailedAt(r, p) == p \in DOMAIN runs[r].own /\ runs[r].own[p].status = "failed"

C2_CompletionStatus ==
    \A r \in RunIds :
        runs[r].pc = "saveDone" =>
            \A k \in PostsOf(r) :
                posts[k].status =
                    IF \E p \in Positions : FailedAt(r, p) THEN "failed" ELSE "passed"

\* C3: a run that acquired the test window and has returned has made exactly
\* one appendExecution call.
C3_ExactlyOnePost ==
    \A r \in RunIds :
        (runs[r].pc = "done" /\ runs[r].newWindow # NoWindow) =>
            Cardinality(PostsOf(r)) = 1

\* the loop of run r is over: it completed or aborted
LoopOver(r) == runs[r].pc \in {"saveAbort", "saveDone"} \/ (runs[r].pc = "done" /\ runs[r].i > 0)

\* C4: a cross-origin-qualified failure at position p does not stop the loop:
\* when the loop of the run is over, every step after p has left pending, up
\* to the end of the sequence or the next failure that is not
\* cross-origin-qualified; and the run does not take the abort exit at p.
C4_CrossOriginFailureContinues ==
    \A r \in RunIds : \A p \in Positions :
        (FailedAt(r, p) /\ CrossOriginQualified(runs[r].own[p].message)) =>
            /\ runs[r].i = p =>
                 /\ runs[r].pc # "saveAbort"
                 /\ runs[r].pc = "done" => p = Len(steps)
            /\ LoopOver(r) =>
                 \A q \in Positions : q > p =>
                    \/ runs[r].own[q].status \in {"passed", "failed"}
                    \/ \E k \in (p+1)..(q-1) :
                          /\ FailedAt(r, k)
                          /\ ~CrossOriginQualified(runs[r].own[k].message)

\* a run whose first step failed cross-origin-qualified and whose second
\* step was executed
C4_Witness ==
    \E r \in RunIds :
        /\ Len(steps) = 2
        /\ FailedAt(r, 1)
        /\ CrossOriginQualified(runs[r].own[1].message)
        /\ Left(r, 2)
        /\ runs[r].pc = "done"

\* the test window of run r is closed (by Stop Test or by the user)
WindowClosed(r) == runs[r].newWindow # NoWindow /\ windows[runs[r].newWindow].closed

\* C5: once the test window of a run is closed, by stop or by the user, no
\* step of that run changes its status any more.
C5_NoStepAfterStop ==
    [][\A r \in RunIds : WindowClosed(r) => runs'[r].own = runs[r].own]_vars

\* window.open returned null for run r
NotAcquired(r) == runs[r].pc = "done" /\ runs[r].newWindow = NoWindow

\* C6: a run whose test window could not be acquired has left every step
\* pending and never calls appendExecution; the click that starts it ends
\* with the popup error shown, isRunning false and every result pending, and
\* until the next click isRunning stays false and an error stays shown.
C6_WindowUnavailable ==
    /\ [](\A r \in RunIds : NotAcquired(r) =>
            /\ \A p \in Positions : runs[r].own[p].status = "pending"
            /\ PostsOf(r) = {}
            /\ nruns = r => (~isRunning /\ error # "null"))
    /\ [][\A r \in RunIds : (runs[r].pc = "idle" /\ NotAcquired(r)') =>
            /\ error' = PopupError
            /\ ~isRunning'
            /\ \A p \in Positions : results'[p].status = "pending"
            /\ posts' = posts]_vars

\* a run that could not acquire its window, after an earlier run
C6_Witness ==
    \E r \in RunIds : NotAcquired(r) /\ r > 1 /\ posts # <<>>

\* the location assignments run r made for the step at position p
NavsAt(r, p, phase) ==
    {k \in 1..Len(runs[r].navs) : runs[r].navs[k].pos = p /\ runs[r].navs[k].phase = phase}

FirstIsNavigate == steps[1].type = "navigate" /\ Truthy(steps[1].url)

Executes(r, p) ==
    /\ p \in DOMAIN runs[r].own
    /\ runs[r].own[p].status = "pending"
    /\ runs'[r].own[p].status # "pending"

\* the test window of run r is open and cross-origin
WindowCrossOrigin(r) ==
    /\ runs[r].newWindow # NoWindow
    /\ ~windows[runs[r].newWindow].closed
    /\ windows[runs[r].newWindow].origin = "cross"

HasPayload(step) ==
    /\ Truthy(step.selector)
    /\ step.type = "fill" => Truthy(step.value)

\* C8: a click, fill or verifyElement step (with its selector and value)
\* executed while the test window of its run is cross-origin ends failed,
\* with a message that tells the user to verify manually.
C8_DomStepCrossOriginFails ==
    [][\A r \in RunIds : \A p \in Positions :
          ( /\ Executes(r, p)
            /\ steps[p].type \in {"click", "fill", "verifyElement"}
            /\ HasPayload(steps[p])
            /\ WindowCrossOrigin(r) ) =>
              /\ runs'[r].own[p].status = "failed"
              /\ CrossOriginQualified(runs'[r].own[p].message)]_vars

AssertStep == mkStep("assert", "", "", "")

\* C9: a custom step is handled exactly like an assert step: executed with
\* the same window handle it gets the status an assert step gets.
C9_CustomLikeAssert ==
    [][\A r \in RunIds : \A p \in Positions :
          (Executes(r, p) /\ steps[p].type = "custom") =>
              runs'[r].own[p].status =
                 IF ExecuteStepSync(AssertStep, runs[r].clWindow, windows, "found").result.success
                 THEN "passed" ELSE "failed"]_vars

Ends(r, p) ==
    /\ p \in DOMAIN runs[r].own
    /\ runs[r].own[p].status \notin {"passed", "failed"}
    /\ runs'[r].own[p].status \in {"passed", "failed"}

\* the test window of run r is open
WindowOpen(r) == runs[r].newWindow # NoWindow /\ ~windows[runs[r].newWindow].closed

\* the steps executeStep handles without reading the document
NeedsNoDom(step) ==
    \/ step.type = "navigate" /\ Truthy(step.url)
    \/ step.type = "waitForPageLoad"
    \/ step.type = "wait" /\ Truthy(step.selector)

\* C11: a navigate step with a url, a waitForPageLoad step and a wait step
\* with a selector end passed whenever the test window of their run is open,
\* whether its document is same-origin or cross-origin.
C11_NoDomStepsSucceed ==
    [][\A r \in RunIds : \A p \in Positions :
          (Ends(r, p) /\ NeedsNoDom(steps[p]) /\ WindowOpen(r)) =>
              runs'[r].own[p].status = "passed"]_vars

\* in this step the POST of run r settles and runTest returns
Settles(r) == runs[r].pc \in {"saveAbort", "saveDone"} /\ runs'[r].pc = "done"

\* C12: when the POST of a run settles, fulfilled or rejected, the step
\* statuses and the error shown stay what they were when the POST was sent,
\* nothing is posted again, and isRunning is false afterwards: the outcome
\* does not depend on whether the save succeeded.
C12_SaveFailureNotSurfaced ==
    [][\A r \in RunIds : Settles(r) =>
          /\ results' = results
          /\ error' = error
          /\ runs'[r].own = runs[r].own
          /\ posts' = posts
          /\ ~isRunning']_vars

\* a run of passing steps whose POST was rejected has returned: no error is
\* shown
C12_Witness ==
    \E r \in RunIds :
        /\ runs[r].pc = "done"
        /\ runs[r].saveError
        /\ \A p \in Positions : runs[r].own[p].status = "passed"
        /\ error = "null"
        /\ ~isRunning

\* the invocation of runTest for run r is still going to take a step
InProgress(r) == runs[r].pc \notin {"idle", "done", "threw"}

\* C13: no invocation of runTest ends by throwing, and isRunning is only
\* true while an invocation is still in progress (so that every run that
\* stops taking steps has returned with isRunning false).
C13_RunsReturnNormally ==
    /\ \A r \in RunIds : runs[r].pc # "threw"
    /\ isRunning => \E r \in RunIds : InProgress(r)

(***************************************************************************)
(* The code emitter and the loaders: generateStepCode and getFullUrl       *)
(* (lib/testStepTypes), formatExpectedResult (lib/testCodeGenerator),      *)
(* generateTestFileContent (app/api/test-cases/route.ts), parseSteps and   *)
(* resolveUrl (BrowserTestRunner), the load effect of TestCaseModal.       *)
(*                                                                         *)
(* A JavaScript string is a sequence of pieces; a piece is a character, or *)
(* a run of characters that the code only ever handles as a whole (a       *)
(* literal of a template, an identifier). The empty sequence is the empty  *)
(* string, and stands for an absent (undefined) optional field too: both   *)
(* are falsy, and the code tests these fields for truthiness only.         *)
(***************************************************************************)

\* ---------------------------------------------------------------- strings
Min(a, b) == IF a < b THEN a ELSE b

\* every sequence over alphabet of length at most n
StringsOver(alphabet, n) == UNION { [1..k -> alphabet] : k \in 0..n }

\* s.startsWith(prefix)
startsWith(s, prefix) ==
    Len(s) >= Len(prefix) /\ SubSeq(s, 1, Len(prefix)) = prefix

\* s.substring(from); s.substring(0, to)
substring(s, from) == SubSeq(s, from + 1, Len(s))
substringTo(s, to) == SubSeq(s, 1, Min(to, Len(s)))

IsSpace(c) == c = " "

\* s.trim()
RECURSIVE trimStart(_)
trimStart(s) ==
    IF s # <<>> /\ IsSpace(Head(s)) THEN trimStart(Tail(s)) ELSE s

RECURSIVE trimEnd(_)
trimEnd(s) ==
    IF s # <<>> /\ IsSpace(s[Len(s)]) THEN trimEnd(SubSeq(s, 1, Len(s) - 1)) ELSE s

trim(s) == trimEnd(trimStart(s))

\* base.replace(/\/+$/, '')
RECURSIVE stripTrailingSlashes(_)
stripTrailingSlashes(s) ==
    IF s # <<>> /\ s[Len(s)] = "/"
    THEN stripTrailingSlashes(SubSeq(s, 1, Len(s) - 1)) ELSE s

\* the decimal digits of a small number, as a string
Digits == <<"0", "1", "2", "3", "4", "5", "6", "7", "8", "9">>
toString(n) == <<Digits[n + 1]>>

\* ------------------------------------------------------------ JSON.parse
\* A JSON text is a sequence of tokens: punctuation, blanks, the literal
\* null, and whole members ("key":"value") of an object. JsonValue is the
\* value JSON.parse returns: null, an object (its members in order) or an
\* array (its items in order).
JsonMembers == {"\"k\":\"v\""}

\* A serialized step, {"id":...,"type":...,...}, is one token: the names of
\* the steps of StepTable below.
SerializedSteps ==
    {"navLogin", "fillEmail", "fillPassword", "clickSubmit", "verifyA",
     "verifyB", "verifyNoId", "apiBadHeaders"}

JsonValue(kind, members, items) ==
    [kind |-> kind, members |-> members, items |-> items]
JsonNull == JsonValue("null", <<>>, <<>>)

Parsed(value) == [ok |-> TRUE, value |-> value]
SyntaxError == [ok |-> FALSE, value |-> JsonNull]

\* s is m, or m "," m, ... for pieces m of the set ms
RECURSIVE IsList(_, _)
IsList(s, ms) ==
    /\ s # <<>>
    /\ Head(s) \in ms
    /\ \/ Len(s) = 1
       \/ Len(s) >= 3 /\ s[2] = "," /\ IsList(SubSeq(s, 3, Len(s)), ms)

EveryOther(s) == [k \in 1..((Len(s) + 1) \div 2) |-> s[2 * k - 1]]

\* t, without blanks, as an object whose members are scalar
parseObject(t) ==
    IF Len(t) >= 2 /\ t[1] = "{" /\ t[Len(t)] = "}"
    THEN LET inner == SubSeq(t, 2, Len(t) - 1)
         IN  IF inner = <<>> THEN Parsed(JsonValue("object", <<>>, <<>>))
             ELSE IF IsList(inner, JsonMembers)
             THEN Parsed(JsonValue("object", EveryOther(inner), <<>>))
             ELSE SyntaxError
    ELSE SyntaxError

\* the first item of the tokens t: null, a serialized step, or an object up
\* to its closing brace; len is the number of tokens it takes
parseItem(t) ==
    LET close == IF \E k \in 1..Len(t) : t[k] = "}"
                 THEN CHOOSE k \in 1..Len(t) : t[k] = "}" /\ \A j \in 1..(k-1) : t[j] # "}"
                 ELSE 0
    IN  IF t # <<>> /\ t[1] = "null" THEN [ok |-> TRUE, value |-> JsonNull, len |-> 1]
        ELSE IF t # <<>> /\ t[1] \in SerializedSteps
        THEN [ok |-> TRUE, value |-> JsonValue("object", <<t[1]>>, <<>>), len |-> 1]
        ELSE IF close > 0
        THEN LET o == parseObject(SubSeq(t, 1, close))
             IN  [ok |-> o.ok, value |-> o.value, len |-> close]
        ELSE [ok |-> FALSE, value |-> JsonNull, len |-> 0]

\* the items of an array, from the tokens between its brackets, first being
\* the first of them; ok is false when the tokens are no list of items
RECURSIVE parseItems(_)
itemsFrom(t, first) ==
    IF ~first.ok THEN [ok |-> FALSE, items |-> <<>>]
    ELSE IF first.len = Len(t) THEN [ok |-> TRUE, items |-> <<first.value>>]
    ELSE IF t[first.len + 1] = "," /\ first.len + 1 < Len(t)
    THEN LET rest == parseItems(SubSeq(t, first.len + 2, Len(t)))
         IN  [ok |-> rest.ok, items |-> <<first.value>> \o rest.items]
    ELSE [ok |-> FALSE, items |-> <<>>]
parseItems(t) == itemsFrom(t, parseItem(t))

parseArray(t) ==
    IF Len(t) >= 2 /\ t[1] = "[" /\ t[Len(t)] = "]"
    THEN LET inner == SubSeq(t, 2, Len(t) - 1)
         IN  IF inner = <<>> THEN Parsed(JsonValue("array", <<>>, <<>>))
             ELSE LET r == parseItems(inner)
                  IN  IF r.ok THEN Parsed(JsonValue("array", <<>>, r.items))
                      ELSE SyntaxError
    ELSE SyntaxError

\* JSON.parse(text): blanks between tokens carry no meaning; ok = FALSE
\* when it throws a SyntaxError
JSONparse(text) ==
    LET t == SelectSeq(text, LAMBDA c : ~IsSpace(c))
    IN  IF t = <<"null">> THEN Parsed(JsonNull)
        ELSE IF t # <<>> /\ t[1] = "{" THEN parseObject(t)
        ELSE IF t # <<>> /\ t[1] = "[" THEN parseArray(t)
        ELSE SyntaxError

\* Array.isArray(v)
IsArray(v) == v.kind = "array"

\* s[1] sep s[2] sep ... for a sequence s of strings
RECURSIVE Join(_, _)
Join(s, sep) ==
    IF s = <<>> THEN <<>>
    ELSE IF Len(s) = 1 THEN s[1]
    ELSE s[1] \o <<sep>> \o Join(Tail(s), sep)

\* JSON.stringify(v)
stringifyScalar(v) ==
    IF v.kind = "null" THEN <<"null">>
    ELSE IF v.members # <<>> /\ v.members[1] \in SerializedSteps THEN v.members
    ELSE <<"{">> \o Join([k \in 1..Len(v.members) |-> <<v.members[k]>>], ",") \o <<"}">>

JSONstringify(v) ==
    IF v.kind = "array"
    THEN <<"[">> \o Join([k \in 1..Len(v.items) |-> stringifyScalar(v.items[k])], ",") \o <<"]">>
    ELSE stringifyScalar(v)

\* ------------------------------------------------------------- TestStep
\* lib/testStepTypes: a step of the emitter. method and expectedStatus are
\* absent in every step of the model.
TestStep(id, type, url, selector, value, action, description, headers, body) ==
    [id |-> id, type |-> type, url |-> url, selector |-> selector,
     value |-> value, action |-> action, description |-> description,
     headers |-> headers, body |-> body]

StepTypes ==
    {"navigate", "click", "fill", "wait", "waitForPageLoad", "verifyElement",
     "assert", "custom", "api_call"}

\* ----------------------------------------------------------- getFullUrl
Http == <<"http:", "/", "/">>
Https == <<"https:", "/", "/">>
DefaultBase == Https \o <<"staging.joinsucceed.ai">>

\* lib/testStepTypes, lines 72-81
getFullUrl(url, baseUrl) ==
    IF startsWith(url, Http) \/ startsWith(url, Https) THEN url
    ELSE LET base == IF baseUrl # <<>> THEN baseUrl ELSE DefaultBase
             cleanBase == stripTrailingSlashes(base)
             cleanUrl == IF startsWith(url, <<"/">>) THEN url ELSE <<"/">> \o url
         IN  cleanBase \o cleanUrl

\* BrowserTestRunner, lines 91-103
resolveUrl(url, testCase) ==
    IF startsWith(url, Http) \/ startsWith(url, Https) THEN url
    ELSE LET baseUrl == IF testCase.baseUrl # <<>> THEN testCase.baseUrl
                        ELSE IF testCase.targetPageUrl # <<>> THEN testCase.targetPageUrl
                        ELSE DefaultBase
             cleanBase == stripTrailingSlashes(baseUrl)
             cleanUrl == IF startsWith(url, <<"/">>) THEN url ELSE <<"/">> \o url
         IN  cleanBase \o cleanUrl

\* ------------------------------------------------------ generateStepCode
indent == "      "

\* no stepIndex argument
NoIndex == -1

\* the longest part of a step id that goes into a binding name
IdPrefix == 8

IsAlnum(c) == c # "-"

\* lines 67-69; random is what Math.random().toString(36).substring(2, 10)
\* gives in this call
elementVarName(step, stepIndex, random) ==
    IF stepIndex # NoIndex THEN <<"element">> \o toString(stepIndex)
    ELSE IF step.id # <<>>
    THEN <<"element">> \o substringTo(SelectSeq(step.id, IsAlnum), IdPrefix)
    ELSE <<"element">> \o random

\* a locator that takes every selector for a css selector
byMethod_AlwaysCss(selector) == <<"By.css('">> \o selector \o <<"')">>

\* lines 113-117 (and its seven copies): the selenium locator of a selector
byMethod(selector) ==
    IF startsWith(selector, <<"#">>)
    THEN <<"By.id('">> \o substring(selector, 1) \o <<"')">>
    ELSE IF startsWith(selector, <<".">>)
    THEN <<"By.className('">> \o substring(selector, 1) \o <<"')">>
    ELSE <<"By.css('">> \o selector \o <<"')">>

Returned(code) == [threw |-> FALSE, code |-> code]
Thrown == [threw |-> TRUE, code |-> <<>>]

\* line 237
DescriptionComment(step) == Returned(<<indent, "// ">> \o step.description)

\* lines 83-105
ApiCallCodeWith(step, framework, headers, body) ==
    LET method == <<"GET">>
        expectedStatus == <<"200">>
        dbIndent == "    "
    IN  IF ~headers.ok \/ ~body.ok THEN Thrown
        ELSE IF framework = "jest"
        THEN IF headers.value.kind = "null" THEN Thrown    \* Object.keys(null)
             ELSE Returned(
                    <<dbIndent, "const response = await fetch('">> \o step.url \o <<"', {\n">>
                    \o <<dbIndent, "  method: '">> \o method \o <<"',\n">>
                    \o (IF Len(headers.value.members) + Len(headers.value.items) > 0
                        THEN <<dbIndent, "  headers: ">> \o JSONstringify(headers.value) \o <<",\n">>
                        ELSE <<>>)
                    \o (IF body.value.kind # "null"
                        THEN <<dbIndent, "  body: JSON.stringify(">> \o JSONstringify(body.value) \o <<"),\n">>
                        ELSE <<>>)
                    \o <<dbIndent, "})\n">>
                    \o <<dbIndent, "expect(response.status).toBe(">> \o expectedStatus \o <<")">>)
        ELSE Returned(<<"// API Call: ">> \o method \o <<" ">> \o step.url)

\* lines 86-87: headers and body are parsed before anything else
ApiCallCode(step, framework) ==
    ApiCallCodeWith(step, framework,
        IF step.headers # <<>> THEN JSONparse(step.headers)
        ELSE Parsed(JsonValue("object", <<>>, <<>>)),
        IF step.body # <<>> THEN JSONparse(step.body) ELSE Parsed(JsonNull))

\* step.action || step.description
ActionOrDescription(step) == IF step.action # <<>> THEN step.action ELSE step.description

\* lines 109-148, and the same text again in lines 151-190
SeleniumCode(step, name, baseUrl) ==
    IF step.type = "navigate" /\ step.url # <<>>
    THEN Returned(<<indent, "await driver.get('">> \o getFullUrl(step.url, baseUrl) \o <<"')">>)
    ELSE IF step.type = "click" /\ step.selector # <<>>
    THEN Returned(<<indent, "await driver.findElement(">> \o byMethod(step.selector) \o <<").click()">>)
    ELSE IF step.type = "fill" /\ step.selector # <<>> /\ step.value # <<>>
    THEN Returned(<<indent, "await driver.findElement(">> \o byMethod(step.selector)
                  \o <<").sendKeys('">> \o step.value \o <<"')">>)
    ELSE IF step.type = "wait" /\ step.selector # <<>>
    THEN Returned(<<indent, "await driver.wait(until.elementLocated(">> \o byMethod(step.selector)
                  \o <<"), 10000)">>)
    ELSE IF step.type = "waitForPageLoad"
    THEN Returned(<<indent, "await driver.wait(async () => await driver.executeScript('return document.readyState') === 'complete', 10000)">>)
    ELSE IF step.type = "verifyElement" /\ step.selector # <<>>
    THEN Returned(<<indent, "const ">> \o name \o <<" = await driver.findElement(">>
                  \o byMethod(step.selector) \o <<")\n", indent, "expect(await ">>
                  \o name \o <<".isDisplayed()).to.be.true">>)
    ELSE IF step.type = "assert" /\ ActionOrDescription(step) # <<>>
    THEN Returned(<<indent, "expect(">> \o ActionOrDescription(step) \o <<").to.be.true">>)
    ELSE IF step.type = "custom" /\ ActionOrDescription(step) # <<>>
    THEN Returned(<<indent>> \o ActionOrDescription(step))
    ELSE DescriptionComment(step)

\* lines 193-213
PlaywrightCode(step, baseUrl) ==
    IF step.type = "navigate" /\ step.url # <<>>
    THEN Returned(<<indent, "await page.goto('">> \o getFullUrl(step.url, baseUrl) \o <<"')">>)
    ELSE IF step.type = "click" /\ step.selector # <<>>
    THEN Returned(<<indent, "await page.click('">> \o step.selector \o <<"')">>)
    ELSE IF step.type = "fill" /\ step.selector # <<>> /\ step.value # <<>>
    THEN Returned(<<indent, "await page.fill('">> \o step.selector \o <<"', '">>
                  \o step.value \o <<"')">>)
    ELSE IF step.type = "wait" /\ step.selector # <<>>
    THEN Returned(<<indent, "await page.waitForSelector('">> \o step.selector \o <<"')">>)
    ELSE IF step.type = "waitForPageLoad"
    THEN Returned(<<indent, "await page.waitForLoadState('">>
                  \o (IF ActionOrDescription(step) # <<>> THEN ActionOrDescription(step)
                      ELSE <<"networkidle">>)
                  \o <<"')">>)
    ELSE IF step.type = "verifyElement" /\ step.selector # <<>>
    THEN Returned(<<indent, "await expect(page.locator('">> \o step.selector \o <<"')).toBeVisible()">>)
    ELSE IF step.type = "assert" /\ ActionOrDescription(step) # <<>>
    THEN Returned(<<indent, "expect(">> \o ActionOrDescription(step) \o <<").toBeTruthy()">>)
    ELSE IF step.type = "custom" /\ ActionOrDescription(step) # <<>>
    THEN Returned(<<indent>> \o ActionOrDescription(step))
    ELSE DescriptionComment(step)

\* lines 215-234
CypressCode(step, baseUrl) ==
    IF step.type = "navigate" /\ step.url # <<>>
    THEN Returned(<<indent, "cy.visit('">> \o getFullUrl(step.url, baseUrl) \o <<"')">>)
    ELSE IF step.type = "click" /\ step.selector # <<>>
    THEN Returned(<<indent, "cy.get('">> \o step.selector \o <<"').click()">>)
    ELSE IF step.type = "fill" /\ step.selector # <<>> /\ step.value # <<>>
    THEN Returned(<<indent, "cy.get('">> \o step.selector \o <<"').type('">>
                  \o step.value \o <<"')">>)
    ELSE IF step.type = "wait" /\ step.selector # <<>>
    THEN Returned(<<indent, "cy.get('">> \o step.selector \o <<"', { timeout: 10000 })">>)
    ELSE IF step.type = "waitForPageLoad"
    THEN Returned(<<indent, "cy.wait(1000) // Wait for page load">>)
    ELSE IF step.type = "verifyElement" /\ step.selector # <<>>
    THEN Returned(<<indent, "cy.get('">> \o step.selector \o <<"').should('be.visible')">>)
    ELSE IF step.type = "assert" /\ ActionOrDescription(step) # <<>>
    THEN Returned(<<indent, "expect(">> \o ActionOrDescription(step) \o <<").to.be.true">>)
    ELSE IF step.type = "custom" /\ ActionOrDescription(step) # <<>>
    THEN Returned(<<indent>> \o ActionOrDescription(step))
    ELSE DescriptionComment(step)

\* lib/testStepTypes, lines 63-238. threw = TRUE: the call ends with an
\* exception (a SyntaxError of JSON.parse, a TypeError of Object.keys).
generateStepCode(step, framework, language, stepIndex, baseUrl, random) ==
    LET name == elementVarName(step, stepIndex, random)
    IN  IF step.type = "api_call" THEN ApiCallCode(step, framework)
        ELSE IF framework = "selenium"
        THEN IF language = "typescript"
             THEN SeleniumCode(step, name, baseUrl)
             ELSE SeleniumCode(step, name, baseUrl)
        ELSE IF framework = "playwright" THEN PlaywrightCode(step, baseUrl)
        ELSE IF framework = "cypress" THEN CypressCode(step, baseUrl)
        ELSE DescriptionComment(step)

\* ---------------------------------------------------- formatExpectedResult
\* The pieces of an expected-result text: words of letters (the words the
\* code looks for, and x for any other), a digit, a blank, and the
\* punctuation the code looks for.
Words == {"true", "false", "page", "driver", "cy", "await", "expect", "x"}
TextPieces == Words \cup {"1", " ", ".", "(", "=", "'"}

\* trimmed.match(/^[a-zA-Z_$][a-zA-Z0-9_$]*\s*[!=<>]/): t after the first
\* letter
RECURSIVE MatchesRest(_, _)
MatchesRest(t, blanks) ==
    IF t = <<>> THEN FALSE
    ELSE IF Head(t) = "=" THEN TRUE
    ELSE IF IsSpace(Head(t)) THEN MatchesRest(Tail(t), TRUE)
    ELSE IF ~blanks /\ Head(t) \in Words \cup {"1"} THEN MatchesRest(Tail(t), FALSE)
    ELSE FALSE

MatchesComparison(t) == t # <<>> /\ Head(t) \in Words /\ MatchesRest(Tail(t), FALSE)

\* trimmed.match(/^['"`]/)
MatchesQuote(t) == t # <<>> /\ Head(t) = "'"

\* a formatter that hands every text through
formatExpectedResult_Unchecked(expectedResult) == trim(expectedResult)

\* lib/testCodeGenerator, lines 321-344
formatExpectedResult(expectedResult) ==
    IF expectedResult = <<>> \/ trim(expectedResult) = <<>> THEN <<"true">>
    ELSE LET trimmed == trim(expectedResult)
             isValidExpression ==
                \/ startsWith(trimmed, <<"true">>)
                \/ startsWith(trimmed, <<"false">>)
                \/ startsWith(trimmed, <<"page", ".">>)
                \/ startsWith(trimmed, <<"driver", ".">>)
                \/ startsWith(trimmed, <<"cy", ".">>)
                \/ startsWith(trimmed, <<"await", " ">>)
                \/ startsWith(trimmed, <<"expect", "(">>)
                \/ MatchesComparison(trimmed)
                \/ MatchesQuote(trimmed)
         IN  IF isValidExpression THEN trimmed ELSE <<"true">>

\* ------------------------------------------------- calls of the emitter
MaxSel == 2         \* longest selector

\* "a .b" is the rest of a compound selector: a name, a descendant
\* combinator and a class
Selectors == StringsOver({"#", ".", "a", "a .b"}, MaxSel)

JsonTexts == { <<>>, <<"{", "}">>, <<"{", "\"k\":\"v\"", "}">>, <<"{">>, <<"null">> }

\* the steps generateStepCode is called with, one at a time
StepInputs ==
    { TestStep(<<"1">>, t, <<>>, sel, <<>>, <<>>, <<"desc">>, <<>>, <<>>) :
        t \in {"click", "wait", "verifyElement"}, sel \in Selectors }
    \cup { TestStep(<<"1">>, "fill", <<>>, sel, v, <<>>, <<"desc">>, <<>>, <<>>) :
        sel \in Selectors, v \in {<<>>, <<"v">>} }
    \cup { TestStep(<<"1">>, "navigate", u, <<>>, <<>>, <<>>, <<"desc">>, <<>>, <<>>) :
        u \in {<<>>, <<"/", "login">>, Https \o <<"x">>} }
    \cup { TestStep(<<"1">>, t, <<>>, <<>>, <<>>, a, d, <<>>, <<>>) :
        t \in {"waitForPageLoad", "assert", "custom"},
        a \in {<<>>, <<"act">>}, d \in {<<>>, <<"desc">>} }
    \cup { TestStep(<<"1">>, "api_call", <<"/api">>, <<>>, <<>>, <<>>, <<"desc">>, h, b) :
        h \in JsonTexts, b \in JsonTexts }

Frameworks == {"selenium", "playwright", "cypress", "jest", "other"}
Languages == {"typescript", "javascript", "python"}

GenerateStepCodeCalls ==
    { [fn |-> "generateStepCode", done |-> FALSE,
       args |-> [step |-> st, framework |-> fw, language |-> lang,
                 stepIndex |-> idx, baseUrl |-> base],
       ret |-> Returned(<<>>)] :
        st \in StepInputs, fw \in Frameworks, lang \in Languages,
        idx \in {NoIndex, 0}, base \in {<<>>, Https \o <<"b", "/">>} }

MaxUrl == 4         \* longest url

Urls == StringsOver({"http:", "https:", "/", "a"}, MaxUrl)

\* a base url: absent, a site with no, one or two slashes at its end, or
\* nothing but a slash
BaseUrls ==
    { <<>>, Https \o <<"b">>, Https \o <<"b", "/">>, Https \o <<"b", "/", "/">>, <<"/">> }

GetFullUrlCalls ==
    { [fn |-> "getFullUrl", done |-> FALSE,
       args |-> [url |-> u, baseUrl |-> base], ret |-> <<>>] :
        u \in Urls, base \in BaseUrls }

ResolveUrlCalls ==
    { [fn |-> "resolveUrl", done |-> FALSE,
       args |-> [url |-> u, testCase |-> [baseUrl |-> base, targetPageUrl |-> target]],
       ret |-> <<>>] :
        u \in Urls, base \in BaseUrls, target \in {<<>>, Https \o <<"t", "/">>} }

MaxText == 3        \* longest expected-result text

FormatExpectedResultCalls ==
    { [fn |-> "formatExpectedResult", done |-> FALSE,
       args |-> [expectedResult |-> text], ret |-> <<>>] :
        text \in StringsOver(TextPieces, MaxText) }

MaxSeq == 4         \* longest sequence of structured steps

\* The steps the serialized steps stand for. The ids of verifyA and verifyB
\* are ids as the editor makes them (Date.now() and a random suffix), of two
\* steps added within the same 100 seconds.
StepTable ==
    [ navLogin |->
        TestStep(<<"1">>, "navigate", <<"/", "login">>, <<>>, <<>>, <<>>, <<"Open login">>, <<>>, <<>>),
      fillEmail |->
        TestStep(<<"2">>, "fill", <<>>, <<"#", "email">>, <<"a@b.com">>, <<>>, <<"Fill email">>, <<>>, <<>>),
      fillPassword |->
        TestStep(<<"3">>, "fill", <<>>, <<"#", "password">>, <<"x">>, <<>>, <<"Fill password">>, <<>>, <<>>),
      clickSubmit |->
        TestStep(<<"4">>, "click", <<>>, <<"#", "submit">>, <<>>, <<>>, <<"Submit">>, <<>>, <<>>),
      verifyA |->
        TestStep(<<"1", "7", "3", "0", "7", "9", "8", "0", "1", "k">>, "verifyElement", <<>>,
                 <<"#", "a">>, <<>>, <<>>, <<"Verify a">>, <<>>, <<>>),
      verifyB |->
        TestStep(<<"1", "7", "3", "0", "7", "9", "8", "0", "2", "m">>, "verifyElement", <<>>,
                 <<"#", "b">>, <<>>, <<>>, <<"Verify b">>, <<>>, <<>>),
      verifyNoId |->
        TestStep(<<>>, "verifyElement", <<>>, <<".", "c">>, <<>>, <<>>, <<"Verify c">>, <<>>, <<>>),
      apiBadHeaders |->
        TestStep(<<"5">>, "api_call", <<"/api">>, <<>>, <<>>, <<>>, <<"Call api">>, <<"{">>, <<>>) ]

\* the sequences of structured steps: no step (no id) occurs twice in one
StructuredSteps ==
    { ss \in StringsOver(SerializedSteps, MaxSeq) :
        \A p \in 1..Len(ss) : \A q \in 1..Len(ss) : p # q => ss[p] # ss[q] }

\* ------------------------------------------------------------- loaders
\* the step an item of a parsed array is read as: a serialized step is the
\* step it stands for; any other object has none of the fields of a step
\* (its description prints as undefined)
AsStep(item) ==
    IF item.members # <<>> /\ item.members[1] \in SerializedSteps
    THEN StepTable[item.members[1]]
    ELSE TestStep(<<>>, "", <<>>, <<>>, <<>>, <<>>, <<"undefined">>, <<>>, <<>>)

\* parsed[0].type is truthy
HasType(item) == AsStep(item).type # ""

\* BrowserTestRunner, lines 27-53: the structured steps of the test case.
\* structured = TRUE: the array parsed from the first string is returned.
parseSteps(testSteps) ==
    LET firstStep == testSteps[1]
        parsed == JSONparse(firstStep)
    IN  IF testSteps # <<>>
           /\ (startsWith(firstStep, <<"[">>) \/ startsWith(firstStep, <<"{">>))
           /\ parsed.ok /\ IsArray(parsed.value)
        THEN [structured |-> TRUE, structuredSteps |-> parsed.value.items]
        ELSE [structured |-> FALSE, structuredSteps |-> <<>>]

\* steps.filter((s: string) => s && s.trim())
NonBlankLines(testSteps) == SelectSeq(testSteps, LAMBDA l : l # <<>> /\ trim(l) # <<>>)

\* steps.filter(step => step.trim() !== '')
NonBlank(lines) == SelectSeq(lines, LAMBDA l : trim(l) # <<>>)

\* array.map(f) over calls that may throw: the codes, or threw when one of
\* the calls throws
MapResult(calls) ==
    IF \E p \in 1..Len(calls) : calls[p].threw
    THEN [threw |-> TRUE, codes |-> <<>>]
    ELSE [threw |-> FALSE, codes |-> [p \in 1..Len(calls) |-> calls[p].code]]

\* route.ts, lines 34-40: the body of the try, given what JSON.parse made of
\* the first string. generateStepCode reads step.type of a null item, or
\* throws by itself.
structuredCodes(parsed, framework, language, baseUrl) ==
    IF ~parsed.ok THEN [threw |-> TRUE, codes |-> <<>>]
    ELSE MapResult([p \in 1..Len(parsed.value.items) |->
            IF parsed.value.items[p].kind = "null" THEN Thrown
            ELSE generateStepCode(AsStep(parsed.value.items[p]), framework, language,
                                  p - 1, baseUrl, <<"r">>)])

\* route.ts, lines 28-49: the step codes generateTestFileContent hands to
\* generateTestCode. structured = TRUE: they are the codes generated from
\* the array parsed from the first string.
stepCodesOf(testSteps, framework, language, baseUrl) ==
    LET m == structuredCodes(JSONparse(testSteps[1]), framework, language, baseUrl)
    IN  IF testSteps = <<>> THEN [structured |-> FALSE, stepCodes |-> <<>>]
        ELSE IF startsWith(trim(testSteps[1]), <<"[">>) /\ ~m.threw
        THEN [structured |-> TRUE, stepCodes |-> m.codes]
        ELSE [structured |-> FALSE, stepCodes |-> NonBlankLines(testSteps)]

\* TestCaseModal, lines 46-67: what the editor loads, given what JSON.parse
\* made of the first string
loadParsed(testSteps, parsed) ==
    LET allRegular == [useStructured |-> FALSE, parsedSteps |-> <<>>,
                       regularSteps |-> NonBlank(testSteps)]
        rest == NonBlank(Tail(testSteps))
    IN  IF ~parsed.ok THEN allRegular
        ELSE IF IsArray(parsed.value)
        THEN IF parsed.value.items # <<>>
             THEN IF parsed.value.items[1].kind = "null" THEN allRegular   \* TypeError, caught
                  ELSE IF HasType(parsed.value.items[1])
                  THEN [useStructured |-> TRUE, parsedSteps |-> parsed.value.items,
                        regularSteps |-> rest]
                  ELSE [useStructured |-> TRUE, parsedSteps |-> <<>>, regularSteps |-> rest]
             ELSE [useStructured |-> TRUE, parsedSteps |-> <<>>, regularSteps |-> rest]
        ELSE allRegular

\* TestCaseModal, lines 35-73: what the editor loads from a test case
loadTestCase(testSteps) ==
    LET firstStep == trim(testSteps[1])
    IN  IF testSteps = <<>>
        THEN [useStructured |-> FALSE, parsedSteps |-> <<>>, regularSteps |-> <<>>]
        ELSE IF startsWith(firstStep, <<"[">>)
                \/ (Len(firstStep) >= 2 /\ firstStep[1] = "{" /\ firstStep[2] \in JsonMembers)
        THEN loadParsed(testSteps, JSONparse(testSteps[1]))
        ELSE [useStructured |-> FALSE, parsedSteps |-> <<>>,
              regularSteps |-> NonBlank(testSteps)]

\* what Math.random().toString(36).substring(2, 10) may give
Randoms == {<<"r">>, <<"q">>}

HandleSubmitCalls ==
    { [fn |-> "handleSubmit", done |-> FALSE,
       args |-> [useStructuredSteps |-> TRUE, structuredSteps |-> ss, steps |-> <<>>,
                 framework |-> fw, language |-> "typescript", baseUrl |-> <<>>],
       ret |-> <<>>] :
        ss \in StructuredSteps, fw \in {"selenium", "playwright"} }
    \cup
    { [fn |-> "handleSubmit", done |-> FALSE,
       args |-> [useStructuredSteps |-> FALSE, structuredSteps |-> <<>>, steps |-> lines,
                 framework |-> "selenium", language |-> "typescript", baseUrl |-> <<>>],
       ret |-> <<>>] :
        lines \in { <<>>, << <<" ">> >>, << <<"code">>, <<>>, <<"more">> >>,
                    << <<"[", "]">>, <<"code">> >>, << <<"[", "x">>, <<"code">> >> } }

HandleAddExampleCalls ==
    { [fn |-> "handleAddExample", done |-> FALSE,
       args |-> [structuredSteps |-> ss], ret |-> <<>>] :
        ss \in StructuredSteps }

\* JSON.stringify(structuredSteps)
StringifySteps(structuredSteps) ==
    JSONstringify(JsonValue("array", <<>>,
        [p \in 1..Len(structuredSteps) |-> JsonValue("object", <<structuredSteps[p]>>, <<>>)]))

\* the pieces of a first string: blanks, brackets, braces, null, a member of
\* an object, a serialized step, other text
MaxJson == 4
JsonPieces == {" ", "[", "]", "{", "}", "null", "\"k\":\"v\"", "verifyA", "x"}

\* the lists of step strings a test case may hold: none (NoSteps), a first
\* string followed by a line of code and a blank line (StepLists), or the
\* list the API test form saves for structured steps (SavedLists)
NoSteps == [steps |-> <<>>, saved |-> FALSE, savedFrom |-> <<>>]
StepLists ==
    { [steps |-> <<first, <<"x">>, <<" ">>>>, saved |-> FALSE, savedFrom |-> <<>>] :
        first \in StringsOver(JsonPieces, MaxJson) }
SavedLists ==
    { [steps |-> <<StringifySteps(ss)>>, saved |-> TRUE, savedFrom |-> ss] :
        ss \in StructuredSteps }

\* nothing loaded yet
NotLoaded ==
    [loaded |-> 0,
     parseSteps |-> [structured |-> FALSE, structuredSteps |-> <<>>],
     generateTestFileContent |-> [structured |-> FALSE, stepCodes |-> <<>>],
     TestCaseModal |-> [useStructured |-> FALSE, parsedSteps |-> <<>>, regularSteps |-> <<>>]]

\* one test case read by the test runner, the download route and the editor
LoadCall(testCase, framework) ==
    [fn |-> "load", done |-> FALSE,
     args |-> [testCase |-> testCase, framework |-> framework,
               language |-> "typescript", baseUrl |-> <<>>],
     ret |-> NotLoaded]

\* the component is not running while the emitter is looked at
EmitterInit ==
    /\ \/ call \in GenerateStepCodeCalls
       \/ call \in GetFullUrlCalls
       \/ call \in ResolveUrlCalls
       \/ call \in HandleSubmitCalls
       \/ call \in HandleAddExampleCalls
       \/ call \in FormatExpectedResultCalls
       \/ call = LoadCall(NoSteps, "playwright")
       \/ \E testCase \in StepLists : call = LoadCall(testCase, "playwright")
       \/ \E testCase \in SavedLists :
            \E framework \in {"playwright", "selenium"} :
                call = LoadCall(testCase, framework)
    /\ NoRequests
    /\ steps = <<>>
    /\ isRunning = FALSE
    /\ results = <<>>
    /\ currentStep = -1
    /\ testWindow = NoWindow
    /\ error = "null"
    /\ windows = <<>>
    /\ runs = [r \in RunIds |-> IdleRun]
    /\ posts = <<>>
    /\ nruns = 0

Return(value) ==
    /\ call' = [call EXCEPT !.done = TRUE, !.ret = value]
    /\ UNCHANGED <<live, store>>

\* one call of generateStepCode; random is the outcome of Math.random
GenerateStepCode(random) ==
    /\ call.fn = "generateStepCode" /\ ~call.done
    /\ LET a == call.args
       IN  Return(generateStepCode(a.step, a.framework, a.language, a.stepIndex,
                                   a.baseUrl, random))

\* one call of getFullUrl (made by generateStepCode for a navigate step)
GetFullUrl ==
    /\ call.fn = "getFullUrl" /\ ~call.done
    /\ Return(getFullUrl(call.args.url, call.args.baseUrl))

\* one call of resolveUrl (made by executeStep and runTest)
ResolveUrl ==
    /\ call.fn = "resolveUrl" /\ ~call.done
    /\ Return(resolveUrl(call.args.url, call.args.testCase))

\* structuredSteps.map((step, index) => generateStepCode(...)): the codes,
\* or threw when a call throws. indexed = FALSE: the calls pass no index.
\* random[p] is the outcome of Math.random in the call for position p.
MapGenerateStepCode(structuredSteps, framework, language, indexed, baseUrl, random) ==
    MapResult([p \in 1..Len(structuredSteps) |->
        generateStepCode(StepTable[structuredSteps[p]], framework, language,
                         IF indexed THEN p - 1 ELSE NoIndex, baseUrl, random[p])])

\* TestCaseModal, lines 117-145: the steps the editor saves
HandleSubmit(random) ==
    /\ call.fn = "handleSubmit" /\ ~call.done
    /\ LET a == call.args
           m == MapGenerateStepCode(a.structuredSteps, a.framework, a.language, TRUE,
                                    a.baseUrl, random)
       IN  IF a.useStructuredSteps
           THEN IF a.structuredSteps # <<>>
                THEN IF m.threw THEN Return([threw |-> TRUE, steps |-> <<>>])
                     ELSE Return([threw |-> FALSE,
                                  steps |-> <<StringifySteps(a.structuredSteps)>> \o m.codes])
                ELSE Return([threw |-> FALSE, steps |-> << <<"[", "]">> >>])
           ELSE Return([threw |-> FALSE,
                        steps |-> IF NonBlank(a.steps) = <<>> THEN << <<>> >>
                                  ELSE NonBlank(a.steps)])

\* lib/testCaseStorage.ts, lines 479-482: the steps of the example, from
\* generateStepCode called without an index
HandleAddExample(random) ==
    /\ call.fn = "handleAddExample" /\ ~call.done
    /\ LET a == call.args
           m == MapGenerateStepCode(a.structuredSteps, "selenium", "typescript", FALSE,
                                    <<>>, random)
       IN  IF m.threw THEN Return([threw |-> TRUE, steps |-> <<>>])
           ELSE Return([threw |-> FALSE,
                        steps |-> <<StringifySteps(a.structuredSteps)>> \o m.codes])

\* the test runner reads the test case (BrowserTestRunner, line 56)
ParseSteps ==
    /\ call.fn = "load" /\ call.ret.loaded = 0
    /\ call' = [call EXCEPT !.ret.loaded = 1,
                            !.ret.parseSteps = parseSteps(call.args.testCase.steps)]
    /\ UNCHANGED <<live, store>>

\* the download route writes the test file (route.ts, lines 19-61)
GenerateTestFileContent ==
    /\ call.fn = "load" /\ call.ret.loaded = 1
    /\ LET a == call.args
       IN  call' = [call EXCEPT !.ret.loaded = 2,
                                !.ret.generateTestFileContent =
                                    stepCodesOf(a.testCase.steps, a.framework,
                                                a.language, a.baseUrl)]
    /\ UNCHANGED <<live, store>>

\* the editor opens the test case (TestCaseModal, lines 35-73)
LoadTestCase ==
    /\ call.fn = "load" /\ call.ret.loaded = 2 /\ ~call.done
    /\ call' = [call EXCEPT !.done = TRUE,
                            !.ret.loaded = 3,
                            !.ret.TestCaseModal = loadTestCase(call.args.testCase.steps)]
    /\ UNCHANGED <<live, store>>

\* one call of formatExpectedResult (made by generateTestCode)
FormatExpectedResult ==
    /\ call.fn = "formatExpectedResult" /\ ~call.done
    /\ Return(formatExpectedResult(call.args.expectedResult))

EmitterNext ==
    \/ \E random \in {<<"r">>} : GenerateStepCode(random)
    \/ FormatExpectedResult
    \/ \E random \in [1..MaxSeq -> {<<"r">>}] : HandleSubmit(random)
    \/ \E random \in [1..MaxSeq -> Randoms] : HandleAddExample(random)
    \/ GetFullUrl
    \/ ResolveUrl
    \/ ParseSteps
    \/ GenerateTestFileContent
    \/ LoadTestCase

EmitterSpec == EmitterInit /\ [][EmitterNext]_vars

\* ------------------------------------------------------ emitter claims
\* sub occurs in s as a run of consecutive pieces
Contains(s, sub) ==
    \E k \in 1..(Len(s) - Len(sub) + 1) : SubSeq(s, k, k + Len(sub) - 1) = sub

\* the locator the rule of the first character gives a non-empty selector
LocatorOf(selector) ==
    CASE Head(selector) = "#" -> <<"By.id('">> \o Tail(selector) \o <<"')">>
      [] Head(selector) = "." -> <<"By.className('">> \o Tail(selector) \o <<"')">>
      [] OTHER -> <<"By.css('">> \o selector \o <<"')">>

\* a returned call of generateStepCode for selenium in TypeScript or
\* JavaScript with a click, fill, wait or verifyElement step that has a
\* selector
SeleniumSelectorCall ==
    /\ call.fn = "generateStepCode" /\ call.done
    /\ call.args.framework = "selenium"
    /\ call.args.language \in {"typescript", "javascript"}
    /\ call.args.step.type \in {"click", "fill", "wait", "verifyElement"}
    /\ call.args.step.selector # <<>>

\* C14 as stated: for selenium in TypeScript or JavaScript, the code of a
\* click, fill, wait or verifyElement step with a non-empty selector has the
\* locator that the first character of the selector decides: By.id of the
\* rest after '#', By.className of the rest after '.', By.css of the whole
\* selector otherwise.
C14_SelectorClassification ==
    SeleniumSelectorCall =>
        /\ ~call.ret.threw
        /\ Contains(call.ret.code, LocatorOf(call.args.step.selector))

\* C14 as amended: the same, for a fill step only when it has a value; a
\* fill step without a value is emitted as its description in a comment,
\* with no locator at all.
C14_SelectorClassificationWithValue ==
    SeleniumSelectorCall =>
        /\ ~call.ret.threw
        /\ IF call.args.step.type = "fill" /\ call.args.step.value = <<>>
           THEN call.ret.code = <<indent, "// ">> \o call.args.step.description
           ELSE Contains(call.ret.code, LocatorOf(call.args.step.selector))

\* a fill step with a value and a selector of two characters that begins
\* with '.', emitted for selenium in JavaScript
C14_Witness ==
    /\ SeleniumSelectorCall
    /\ call.args.language = "javascript"
    /\ call.args.step.type = "fill"
    /\ call.args.step.value # <<>>
    /\ Len(call.args.step.selector) = 2
    /\ Head(call.args.step.selector) = "."
    /\ Contains(call.ret.code, <<"By.className('">>)

\* a returned call of getFullUrl or resolveUrl
UrlCall == call.fn \in {"getFullUrl", "resolveUrl"} /\ call.done

IsAbsolute(url) ==
    \/ Len(url) >= 3 /\ SubSeq(url, 1, 3) = <<"http:", "/", "/">>
    \/ Len(url) >= 3 /\ SubSeq(url, 1, 3) = <<"https:", "/", "/">>

\* the base a call resolves against: the configured one, else (in the live
\* engine) the target page, else the default site
BaseOf(c) ==
    IF c.fn = "getFullUrl"
    THEN IF c.args.baseUrl # <<>> THEN c.args.baseUrl
         ELSE <<"https:", "/", "/", "staging.joinsucceed.ai">>
    ELSE IF c.args.testCase.baseUrl # <<>> THEN c.args.testCase.baseUrl
    ELSE IF c.args.testCase.targetPageUrl # <<>> THEN c.args.testCase.targetPageUrl
    ELSE <<"https:", "/", "/", "staging.joinsucceed.ai">>

\* s without the slashes at its end / at its start
RECURSIVE NoSlashAtEnd(_)
NoSlashAtEnd(s) ==
    IF s # <<>> /\ s[Len(s)] = "/" THEN NoSlashAtEnd(SubSeq(s, 1, Len(s) - 1)) ELSE s

RECURSIVE NoSlashAtStart(_)
NoSlashAtStart(s) ==
    IF s # <<>> /\ Head(s) = "/" THEN NoSlashAtStart(Tail(s)) ELSE s

\* C15: getFullUrl and resolveUrl return an absolute url unchanged, whatever
\* the base; a relative url they resolve to the base without the slashes at
\* its end, then one slash, then the path (the url without slashes at its
\* start). The result is this function of url and base, so that resolving
\* twice gives the same.
C15_UrlResolution ==
    UrlCall =>
        IF IsAbsolute(call.args.url) THEN call.ret = call.args.url
        ELSE call.ret = NoSlashAtEnd(BaseOf(call)) \o <<"/">> \o NoSlashAtStart(call.args.url)

\* a returned emission of a sequence for selenium
SeleniumEmission ==
    /\ call.fn \in {"handleSubmit", "handleAddExample"} /\ call.done
    /\ call.fn = "handleSubmit" =>
         (call.args.useStructuredSteps /\ call.args.framework = "selenium")
    /\ ~call.ret.threw

\* the positions of the verifyElement steps of the emitted sequence
VerifyPositions ==
    {p \in 1..Len(call.args.structuredSteps) :
        call.args.structuredSteps[p] \in {"verifyA", "verifyB", "verifyNoId"}}

\* the name a fragment binds: what stands between "const " and " = await"
BindingOf(code) ==
    LET k == CHOOSE k \in 1..Len(code) : code[k] = " = await driver.findElement("
    IN  SubSeq(code, 3, k - 1)

\* the fragment of the step at position p (the serialized steps come first)
FragmentAt(p) == call.ret.steps[p + 1]

FormatCall == call.fn = "formatExpectedResult" /\ call.done

\* text without the blanks around it
Core(text) ==
    LET inside == {k \in 1..Len(text) : text[k] # " "}
    IN  IF inside = {} THEN <<>>
        ELSE SubSeq(text, CHOOSE a \in inside : \A k \in inside : a <= k,
                          CHOOSE b \in inside : \A k \in inside : b >= k)

LetterWords == {"true", "false", "page", "driver", "cy", "await", "expect", "x"}

\* text is code-like: it begins with a recognized keyword or call prefix, or
\* with an identifier followed (after blanks) by a comparison sign, or with
\* a quote
CodeLike(text) ==
    LET t == Core(text)
        begins(a) == Len(t) >= 1 /\ t[1] = a
        beginsWith(a, b) == Len(t) >= 2 /\ t[1] = a /\ t[2] = b
    IN  \/ begins("true") \/ begins("false")
        \/ beginsWith("page", ".") \/ beginsWith("driver", ".") \/ beginsWith("cy", ".")
        \/ beginsWith("await", " ") \/ beginsWith("expect", "(")
        \/ begins("'")
        \/ \E n \in 2..Len(t) :
              /\ t[n] = "="
              /\ t[1] \in LetterWords
              /\ \E m \in 1..(n - 1) :
                    /\ \A i \in 1..m : t[i] \in LetterWords \cup {"1"}
                    /\ \A i \in (m + 1)..(n - 1) : t[i] = " "

\* C17: formatExpectedResult never returns an empty (or blank) expression,
\* for the empty text and texts of blanks too; for a text that is not
\* code-like it returns exactly true.
C17_ExpectedResultNeverEmpty ==
    FormatCall =>
        /\ Core(call.ret) # <<>>
        /\ ~CodeLike(call.args.expectedResult) => call.ret = <<"true">>

\* a text of several words that is not code-like has been formatted
C17_Witness ==
    /\ FormatCall
    /\ Len(call.args.expectedResult) >= 3
    /\ call.args.expectedResult[1] = "x"
    /\ call.args.expectedResult[2] = " "
    /\ ~CodeLike(call.args.expectedResult)
    /\ call.ret = <<"true">>

\* a returned call of generateStepCode
StepCodeCall == call.fn = "generateStepCode" /\ call.done

\* C18: no call of generateStepCode ends with an exception, whatever the
\* step, the framework and the language, malformed payload included; for a
\* framework without translation rules, a step that is no api_call is
\* returned as its description in a comment.
C18_GenerateStepCodeNeverThrows ==
    StepCodeCall =>
        /\ ~call.ret.threw
        /\ ( /\ call.args.framework \notin {"selenium", "playwright", "cypress"}
             /\ call.args.step.type # "api_call" ) =>
               call.ret.code = <<"      ", "// ">> \o call.args.step.description


\* ---------------------------------------------------------------- C19
\* a saved structured sequence whose test file has been written
Emitted ==
    /\ call.fn = "load"
    /\ call.ret.loaded >= 2
    /\ call.args.testCase.saved

\* the code fragment of the step at position p of a saved sequence
FragmentOf(structuredSteps, p) ==
    generateStepCode(StepTable[structuredSteps[p]], call.args.framework,
                     call.args.language, p - 1, call.args.baseUrl, <<"r">>)

\* the scenario of the specification
LoginScenario == <<"navLogin", "fillEmail", "fillPassword", "clickSubmit">>
LoginScenarioCodes ==
    << <<indent, "await page.goto('">> \o DefaultBase \o <<"/", "login", "')">>,
       <<indent, "await page.fill('", "#", "email", "', '", "a@b.com", "')">>,
       <<indent, "await page.fill('", "#", "password", "', '", "x", "')">>,
       <<indent, "await page.click('", "#", "submit", "')">> >>

\* C19: the test file written for a saved structured sequence of n steps has
\* exactly n step codes, the code at each position being the fragment of the
\* step at that position; for the login scenario under playwright they are a
\* page.goto of the absolute login URL, two page.fill and one page.click.
C19_EmissionPreservesSequence ==
    Emitted =>
        LET structuredSteps == call.args.testCase.savedFrom
            stepCodes == call.ret.generateTestFileContent.stepCodes
        IN  /\ Len(stepCodes) = Len(structuredSteps)
            /\ \A p \in 1..Len(structuredSteps) :
                    /\ ~FragmentOf(structuredSteps, p).threw
                    /\ stepCodes[p] = FragmentOf(structuredSteps, p).code
            /\ (structuredSteps = LoginScenario /\ call.args.framework = "playwright")
                    => stepCodes = LoginScenarioCodes

\* ---------------------------------------------------------------- C20
\* a test case that the test runner, the download route and the editor
\* have all read
LoadedByAll == call.fn = "load" /\ call.ret.loaded = 3

\* the first string begins with '[' and parses as an array
IsStructuredList(testSteps) ==
    /\ testSteps # <<>>
    /\ startsWith(testSteps[1], <<"[">>)
    /\ JSONparse(testSteps[1]).ok
    /\ IsArray(JSONparse(testSteps[1]).value)

\* C20: parseSteps, generateTestFileContent and the editor's load classify
\* every list of step strings the same way: as structured exactly when the
\* first string begins with '[' and parses as an array of steps.
C20_LoadersAgree ==
    LoadedByAll =>
        LET structured == IsStructuredList(call.args.testCase.steps)
        IN  /\ call.ret.parseSteps.structured = structured
            /\ call.ret.generateTestFileContent.structured = structured
            /\ call.ret.TestCaseModal.useStructured = structured

(***************************************************************************)
(* Further properties of the live execution engine.                        *)
(***************************************************************************)
\* ---------------------------------------------------------------- C22
\* the statuses run r has given the steps, in sequence order
StatusesOf(r) == [p \in 1..Len(runs[r].own) |-> runs[r].own[p].status]

\* C22: every record handed to appendExecution carries, for each step of the
\* sequence in order, the status the run that sends it has given that step;
\* its passedSteps and failedSteps count the entries passed and failed; and
\* the record of a run that aborted has failedSteps >= 1.
C22_RecordReflectsRun ==
    \A k \in 1..Len(posts) :
        LET r == posts[k].run
        IN  /\ posts[k].stepResults = StatusesOf(r)
            /\ posts[k].passedSteps = Count(runs[r].own, "passed")
            /\ posts[k].failedSteps = Count(runs[r].own, "failed")
            /\ (\E p \in Positions : FailedAt(r, p) /\ ~CrossOriginQualified(runs[r].own[p].message))
                   => posts[k].failedSteps >= 1

\* ---------------------------------------------------------------- C23
\* the first position of run r is the one the loop marks passed without
\* executing it (lines 366-370)
SkipsFirst(r) == runs'[r].skipFirstNavigate /\ steps[1].type = "navigate"

\* in this step the loop of run r sets the step at position p running (line
\* 373); when executeStep returns without waiting for a timer, the result is
\* set in the same step
SetsRunning(r, p) ==
    /\ runs[r].i < p
    /\ p <= runs'[r].i
    /\ ~(p = 1 /\ SkipsFirst(r))

\* C23: between two clicks on Run Test the status of every step only moves
\* pending -> running -> passed or failed: it becomes passed or failed only
\* from running, and once passed or failed it does not change.
C23_StatusOnlyAdvances ==
    [][nruns' = nruns =>
          \A p \in 1..Len(results) :
              \/ results'[p].status = results[p].status
              \/ /\ results[p].status = "pending"
                 /\ \E r \in RunIds : SetsRunning(r, p)
              \/ /\ results[p].status = "running"
                 /\ results'[p].status \in {"passed", "failed"}]_vars

\* ---------------------------------------------------------------- C24
\* the location assignments run r made before the loop
UpFrontNavs(r) == {k \in 1..Len(runs[r].navs) : runs[r].navs[k].phase = "upfront"}

\* C24: in a run of a sequence whose first step is not a navigate step, no
\* navigation is made before the loop, and the URL of each navigate step is
\* navigated to at most once, by the loop, and exactly once when that step
\* has ended passed.
C24_UpFrontOnlyForFirstStep ==
    \A r \in RunIds :
        steps[1].type # "navigate" =>
            /\ UpFrontNavs(r) = {}
            /\ \A p \in Positions :
                  (steps[p].type = "navigate" /\ Truthy(steps[p].url)) =>
                      /\ Cardinality(NavsAt(r, p, "loop")) <= 1
                      /\ runs[r].own # <<>> /\ runs[r].own[p].status = "passed" =>
                             Cardinality(NavsAt(r, p, "loop")) = 1

\* ---------------------------------------------------------------- C25
\* the payload of the step lacks a field its type requires
LacksRequired(step) ==
    \/ step.type = "navigate" /\ ~Truthy(step.url)
    \/ step.type \in {"click", "wait", "verifyElement"} /\ ~Truthy(step.selector)
    \/ step.type = "fill" /\ (~Truthy(step.selector) \/ ~Truthy(step.value))

\* the messages of executeStep for a missing field
ConfigurationMessages ==
    {"No URL provided", "No selector provided", "No selector or value provided"}

\* C25: a step whose payload lacks a field its type requires ends failed,
\* with the message for the missing field, at every position.
C25_MissingFieldFails ==
    [][\A r \in RunIds : \A p \in Positions :
          (Ends(r, p) /\ LacksRequired(steps[p])) =>
              /\ runs'[r].own[p].status = "failed"
              /\ runs'[r].own[p].message.t \in ConfigurationMessages]_vars

\* ---------------------------------------------------------------- C26
\* the loop of run r is between its first and its last step
LoopActive(r) == runs[r].pc \in {"step", "pace"}

\* C26: at most one run has its loop active and at most one step is being
\* executed, and within a run a step is only started when every step before
\* it has ended.
C26_OneRunAtATime ==
    /\ Cardinality({r \in RunIds : LoopActive(r)}) <= 1
    /\ Cardinality({r \in RunIds : runs[r].pc = "step"}) <= 1
    /\ \A r \in RunIds : \A p, q \in 1..Len(runs[r].own) :
          (p < q /\ runs[r].own[q].status # "pending") =>
              runs[r].own[p].status \in {"passed", "failed"}

(***************************************************************************)
(* Further properties of the code emitter and the loaders.                 *)
(***************************************************************************)
\* ---------------------------------------------------------------- C27
\* the selector has a combinator and a second simple selector
IsCompound(selector) == \E k \in 1..Len(selector) : selector[k] = "a .b"

\* C27: for selenium in TypeScript or JavaScript, a step whose selector is
\* compound and for which a locator is emitted gets the generic By.css
\* locator of the whole selector, whatever the first character.
C27_CompoundSelectorIsCss ==
    ( /\ SeleniumSelectorCall
      /\ IsCompound(call.args.step.selector)
      /\ call.args.step.type = "fill" => call.args.step.value # <<>> ) =>
        /\ ~call.ret.threw
        /\ Contains(call.ret.code, <<"By.css('">> \o call.args.step.selector \o <<"')">>)

\* ---------------------------------------------------------------- C28
\* C28: the URL resolveUrl returns for a navigate url of a test case is the
\* URL getFullUrl gives for the same url with the baseUrl of that test case,
\* for every baseUrl (the empty one included) and targetPageUrl.
C28_EnginesResolveAlike ==
    (call.fn = "resolveUrl" /\ call.done) =>
        call.ret = getFullUrl(call.args.url, call.args.testCase.baseUrl)

\* ---------------------------------------------------------------- C29
\* what the editor loaded is the mode and the steps the editor held when it
\* saved: the structured steps in structured mode, the non-blank lines in
\* manual mode
Restores(a, l) ==
    /\ l.useStructured = a.useStructuredSteps
    /\ IF a.useStructuredSteps
       THEN [p \in 1..Len(l.parsedSteps) |-> AsStep(l.parsedSteps[p])]
                = [p \in 1..Len(a.structuredSteps) |-> StepTable[a.structuredSteps[p]]]
       ELSE NonBlank(a.steps) # <<>> => l.regularSteps = NonBlank(a.steps)

\* C29: the step list handleSubmit saves, loaded again by TestCaseModal,
\* restores the mode (structured or manual) and the steps of the editor; a
\* test case saved in manual mode with non-empty lines comes back in manual
\* mode with exactly those lines.
C29_SaveLoadRoundTrip ==
    (call.fn = "handleSubmit" /\ call.done /\ ~call.ret.threw) =>
        Restores(call.args, loadTestCase(call.ret.steps))

(***************************************************************************)
(* Model of the API routes over the database: POST /api/auth/register      *)
(* (src/app/api/test-executions/route.ts, lines 141-185) and the routes    *)
(* of the test cases (src/app/api/test-cases/route.ts, and                 *)
(* src/unnamed/part_009 for one test case by id).                          *)
(*                                                                         *)
(* One action is one stretch of a handler that ends with a query of the    *)
(* database or with the response; the queries of requests in flight        *)
(* interleave. A request records the response it got and, in rows, the     *)
(* rows of test_cases its query returned, changed or deleted.              *)
(***************************************************************************)
MaxRequests == 3    \* number of requests considered

\* the user of the session of a caller; NoSession: auth() gives no user
NoSession == "none"
Sessions == {"A", "B", NoSession}

\* emails of register requests: one address, and a string z.string().email()
\* rejects
Emails == {"a@x", "bad"}

\* the name in the body of a PUT; Undefined: the body has no field
Undefined == "undefined"
Names == {"renamed", Undefined}

\* a request as it is received
Request(route, session, email, id, name) ==
    [route |-> route, session |-> session, email |-> email, id |-> id, name |-> name,
     pc |-> "received", status |-> 0, error |-> "", rows |-> {}]

\* NextResponse.json(..., { status }) ends the request
Respond(req, status, message, rows) ==
    [req EXCEPT !.pc = "done", !.status = status, !.error = message, !.rows = rows]

\* generateId(): an id no test case had before
nextId == Cardinality({k \in 1..Len(requests) : requests[k].route = "create"
                                                /\ requests[k].status = 201}) + 1

\* the ids a request may name: those given out so far, and one of no test case
TestCaseIds == 1..nextId

StoreInit ==
    /\ call = NoCall
    /\ NoRequests
    /\ steps = <<>>
    /\ isRunning = FALSE
    /\ results = <<>>
    /\ currentStep = -1
    /\ testWindow = NoWindow
    /\ error = "null"
    /\ windows = <<>>
    /\ runs = [r \in RunIds |-> IdleRun]
    /\ posts = <<>>
    /\ nruns = 0

\* the rows of users with the email
WithEmail(email) == {k \in 1..Len(users) : users[k].email = email}

\* register, lines 153-170: up to the result of the SELECT
RegisterPOST(email) ==
    /\ Len(requests) < MaxRequests
    /\ LET req == Request("register", NoSession, email, 0, Undefined)
       IN  requests' = Append(requests,
              IF email = "bad" THEN Respond(req, 400, "Invalid input", {})
              ELSE IF WithEmail(email) # {}
              THEN Respond(req, 400, "User already exists", {})
              ELSE [req EXCEPT !.pc = "insert"])
    /\ UNCHANGED <<live, call, users, test_cases>>

\* register, lines 170-184: the password is hashed, then the INSERT. users
\* has email UNIQUE (initDatabase): the INSERT of an email that is there
\* throws, and the catch answers 500.
RegisterInsert(k) ==
    /\ requests[k].route = "register" /\ requests[k].pc = "insert"
    /\ IF WithEmail(requests[k].email) # {}
       THEN /\ requests' = [requests EXCEPT
                              ![k] = Respond(@, 500, "Internal server error", {})]
            /\ UNCHANGED users
       ELSE /\ users' = Append(users, [email |-> requests[k].email])
            /\ requests' = [requests EXCEPT ![k] = Respond(@, 201, "", {})]
    /\ UNCHANGED <<live, call, test_cases>>

\* test-cases/route.ts, lines 152-254: POST creates a test case of the
\* user of the session
CreateTestCase(session) ==
    /\ Len(requests) < MaxRequests
    /\ LET req == Request("create", session, "", nextId, "created")
           row == [id |-> nextId, user_id |-> session, name |-> "created"]
       IN  IF session = NoSession
           THEN /\ requests' = Append(requests, Respond(req, 401, "Unauthorized", {}))
                /\ UNCHANGED test_cases
           ELSE /\ test_cases' = test_cases \cup {row}
                /\ requests' = Append(requests, Respond(req, 201, "", {row}))
    /\ UNCHANGED <<live, call, users>>

\* test-cases/route.ts, lines 101-150: GET lists the test cases
ListTestCases(session) ==
    /\ Len(requests) < MaxRequests
    /\ LET req == Request("list", session, "", 0, Undefined)
       IN  requests' = Append(requests,
              IF session = NoSession THEN Respond(req, 401, "Unauthorized", {})
              ELSE Respond(req, 200, "", {t \in test_cases : t.user_id = session}))
    /\ UNCHANGED <<live, call, users, test_cases>>

\* SELECT ... FROM test_cases WHERE id = $1
WithId(id) == {t \in test_cases : t.id = id}

\* part_009, lines 100-145: GET of one test case
GetTestCase(session, id) ==
    /\ Len(requests) < MaxRequests
    /\ LET req == Request("get", session, "", id, Undefined)
       IN  requests' = Append(requests,
              IF WithId(id) = {} THEN Respond(req, 404, "Test case not found", {})
              ELSE Respond(req, 200, "", WithId(id)))
    /\ UNCHANGED <<live, call, users, test_cases>>

\* part_009, lines 148-290: PUT, up to the UPDATE
PutTestCase(session, id, name) ==
    /\ Len(requests) < MaxRequests
    /\ LET req == Request("update", session, "", id, name)
       IN  requests' = Append(requests,
              IF WithId(id) = {} THEN Respond(req, 404, "Test case not found", {})
              ELSE IF name = Undefined THEN Respond(req, 400, "No fields to update", {})
              ELSE [req EXCEPT !.pc = "update"])
    /\ UNCHANGED <<live, call, users, test_cases>>

\* part_009, lines 292-324: UPDATE test_cases SET ... WHERE id = $n
PutUpdate(k) ==
    /\ requests[k].route = "update" /\ requests[k].pc = "update"
    /\ LET updated == {[t EXCEPT !.name = requests[k].name] : t \in WithId(requests[k].id)}
       IN  /\ test_cases' = (test_cases \ WithId(requests[k].id)) \cup updated
           /\ requests' = [requests EXCEPT ![k] =
                  IF updated = {} THEN Respond(@, 404, "Test case not found", {})
                  ELSE Respond(@, 200, "", updated)]
    /\ UNCHANGED <<live, call, users>>

\* part_009, lines 335-356: DELETE FROM test_cases WHERE id = $1
DeleteTestCase(session, id) ==
    /\ Len(requests) < MaxRequests
    /\ LET req == Request("delete", session, "", id, Undefined)
       IN  requests' = Append(requests,
              IF WithId(id) = {} THEN Respond(req, 404, "Test case not found", {})
              ELSE Respond(req, 200, "", WithId(id)))
    /\ test_cases' = test_cases \ WithId(id)
    /\ UNCHANGED <<live, call, users>>

StoreNext ==
    \/ \E email \in Emails : RegisterPOST(email)
    \/ \E k \in 1..Len(requests) : RegisterInsert(k)
    \/ \E session \in Sessions : CreateTestCase(session)
    \/ \E session \in Sessions : ListTestCases(session)
    \/ \E session \in Sessions, id \in TestCaseIds : GetTestCase(session, id)
    \/ \E session \in Sessions, id \in TestCaseIds, name \in Names :
            PutTestCase(session, id, name)
    \/ \E k \in 1..Len(requests) : PutUpdate(k)
    \/ \E session \in Sessions, id \in TestCaseIds : DeleteTestCase(session, id)

StoreSpec == StoreInit /\ [][StoreNext]_vars

\* -------------------------------------------------- claims of the routes
\* the email of request k is registered when the step begins
Registered(k) == WithEmail(requests'[k].email) # {}

\* request k is answered in this step
Answered(k) ==
    /\ requests'[k].pc = "done"
    /\ k <= Len(requests) => requests[k].pc # "done"

\* C21: a register request for an email that is registered when the request
\* is answered gets status 400 with error 'User already exists', and no
\* email is ever in users twice, however the register requests interleave.
C21_DuplicateRegistrationRefused ==
    [][/\ \A email \in Emails :
            Cardinality({u \in 1..Len(users') : users'[u].email = email}) <= 1
       /\ \A k \in 1..Len(requests') :
            (requests'[k].route = "register" /\ Answered(k) /\ Registered(k)) =>
                /\ requests'[k].status = 400
                /\ requests'[k].error = "User already exists"]_vars

\* C30: every test case a request of list, get by id, update or delete
\* returned, changed or deleted belongs to the user of the session of the
\* request; a request without a session gets at none.
C30_TestCasesIsolatedPerUser ==
    \A k \in 1..Len(requests) :
        requests[k].route \in {"list", "get", "update", "delete"} =>
            \A t \in requests[k].rows : t.user_id = requests[k].session

====
